---------------------------- MODULE Spec2Model ----------------------------
(***************************************************************************)
(* CourseMatrix: the data model (CourseDataModel in data_model.py), its    *)
(* filter engine (_apply_filters), the catalog index                       *)
(* (_build_course_lookup) and the matrix builder (build_matrix).           *)
(*                                                                         *)
(* Spec       the data model as a state machine: load_students,            *)
(*            load_courses, set_filters, build_matrix, get_cell.           *)
(* FilterSpec _apply_filters as a function of a table and a criterion      *)
(*            list: Init draws both, FilterApply applies the list.         *)
(*                                                                         *)
(* pandas is modelled by what the calls used here do on the cell kinds     *)
(* the modelled files contain: text, integer, timestamp (day resolution)   *)
(* and missing.  Parsing is cell by cell.                                  *)
(***************************************************************************)
EXTENDS Integers, Sequences, FiniteSets, TLC

(***************************************************************************)
(* Bounds of the model.                                                    *)
(***************************************************************************)
\* rows in a generated student file
MaxRows == 2
\* criteria in a generated criterion list
MaxCriteria == 2
\* columns in a generated header and candidates in a generated candidate list
MaxColumns == 3
MaxCandidates == 2
\* date texts and other cells in a generated column of values
MaxDates == 2
MaxOthers == 9

(***************************************************************************)
(* Text.  A string is kept as a TLA+ string; what the code computes from   *)
(* its characters (ordering, lower-casing, parsing, formatting) is         *)
(* computed from its character codes, which CodesTable spells out.         *)
(***************************************************************************)
CodesTable ==
    "student_id" :> <<115, 116, 117, 100, 101, 110, 116, 95, 105, 100>> @@
    "Student ID" :> <<83, 116, 117, 100, 101, 110, 116, 32, 73, 68>> @@
    "StudentID" :> <<83, 116, 117, 100, 101, 110, 116, 73, 68>> @@
    "studentnummer" :> <<115, 116, 117, 100, 101, 110, 116, 110, 117, 109, 109, 101, 114>> @@
    "Studentnummer" :> <<83, 116, 117, 100, 101, 110, 116, 110, 117, 109, 109, 101, 114>> @@
    "Relatienummer" :> <<82, 101, 108, 97, 116, 105, 101, 110, 117, 109, 109, 101, 114>> @@
    "student" :> <<115, 116, 117, 100, 101, 110, 116>> @@
    "ID" :> <<73, 68>> @@
    "Naam" :> <<78, 97, 97, 109>> @@
    "name" :> <<110, 97, 109, 101>> @@
    "Naam student" :> <<78, 97, 97, 109, 32, 115, 116, 117, 100, 101, 110, 116>> @@
    "student_name" :> <<115, 116, 117, 100, 101, 110, 116, 95, 110, 97, 109, 101>> @@
    "Student Name" :> <<83, 116, 117, 100, 101, 110, 116, 32, 78, 97, 109, 101>> @@
    "Kwal. ID" :> <<75, 119, 97, 108, 46, 32, 73, 68>> @@
    "Kwalificatie ID" :> <<75, 119, 97, 108, 105, 102, 105, 99, 97, 116, 105, 101, 32, 73, 68>> @@
    "kwalificatie_id" :> <<107, 119, 97, 108, 105, 102, 105, 99, 97, 116, 105, 101, 95, 105, 100>> @@
    "Kwalificatie" :> <<75, 119, 97, 108, 105, 102, 105, 99, 97, 116, 105, 101>> @@
    "KwalificatieID" :> <<75, 119, 97, 108, 105, 102, 105, 99, 97, 116, 105, 101, 73, 68>> @@
    "QID" :> <<81, 73, 68>> @@
    "qid" :> <<113, 105, 100>> @@
    "Uitgifte" :> <<85, 105, 116, 103, 105, 102, 116, 101>> @@
    "Completion" :> <<67, 111, 109, 112, 108, 101, 116, 105, 111, 110>> @@
    "Completion Date" :> <<67, 111, 109, 112, 108, 101, 116, 105, 111, 110, 32, 68, 97, 116, 101>> @@
    "CompletionDate" :> <<67, 111, 109, 112, 108, 101, 116, 105, 111, 110, 68, 97, 116, 101>> @@
    "Score" :> <<83, 99, 111, 114, 101>> @@
    "uitgifte" :> <<117, 105, 116, 103, 105, 102, 116, 101>> @@
    "Afdeling" :> <<65, 102, 100, 101, 108, 105, 110, 103>> @@
    "S1" :> <<83, 49>> @@
    "S2" :> <<83, 50>> @@
    "Q1" :> <<81, 49>> @@
    "Q2" :> <<81, 50>> @@
    "Q9" :> <<81, 57>> @@
    "Ann" :> <<65, 110, 110>> @@
    "Bob" :> <<66, 111, 98>> @@
    "x" :> <<120>> @@
    "" :> <<>> @@
    "5" :> <<53>> @@
    "7" :> <<55>> @@
    "9" :> <<57>> @@
    "10" :> <<49, 48>> @@
    "0" :> <<48>> @@
    "5.0" :> <<53, 46, 48>> @@
    "7.0" :> <<55, 46, 48>> @@
    "10.0" :> <<49, 48, 46, 48>> @@
    "nan" :> <<110, 97, 110>> @@
    "NaT" :> <<78, 97, 84>> @@
    "None" :> <<78, 111, 110, 101>> @@
    "2024-01-01" :> <<50, 48, 50, 52, 45, 48, 49, 45, 48, 49>> @@
    "2024-02-01" :> <<50, 48, 50, 52, 45, 48, 50, 45, 48, 49>> @@
    "2024-03-01" :> <<50, 48, 50, 52, 45, 48, 51, 45, 48, 49>> @@
    "Basis" :> <<66, 97, 115, 105, 115>> @@
    "Vervolg" :> <<86, 101, 114, 118, 111, 108, 103>> @@
    " " :> <<32>>

Codes(s) == CodesTable[s]

\* the string with the given character codes
FromCodes(cs) == CHOOSE s \in DOMAIN CodesTable : CodesTable[s] = cs

RECURSIVE SeqLess(_, _)
\* Python's < on str: lexicographic by code point, a proper prefix first
SeqLess(a, b) ==
    IF b = <<>> THEN FALSE
    ELSE IF a = <<>> THEN TRUE
    ELSE IF Head(a) # Head(b) THEN Head(a) < Head(b)
    ELSE SeqLess(Tail(a), Tail(b))

StrLess(s, t) == SeqLess(Codes(s), Codes(t))

\* str.lower() on one ASCII character
LowerCode(c) == IF c >= 65 /\ c <= 90 THEN c + 32 ELSE c

\* str.lower(), as character codes
LowerCodes(s) == [i \in 1..Len(Codes(s)) |-> LowerCode(Codes(s)[i])]

IsDigit(c) == c >= 48 /\ c <= 57

RECURSIVE DigitsValue(_)
\* the number a run of decimal digits spells
DigitsValue(cs) ==
    IF cs = <<>> THEN 0
    ELSE 10 * DigitsValue(SubSeq(cs, 1, Len(cs) - 1)) + (cs[Len(cs)] - 48)

RECURSIVE DigitsOf(_)
\* the decimal digits of a natural number
DigitsOf(n) ==
    IF n < 10 THEN <<48 + n>>
    ELSE DigitsOf(n \div 10) \o <<48 + (n % 10)>>

\* digits, left-padded with "0" to the given width
Pad(n, width) ==
    LET d == DigitsOf(n)
    IN  [i \in 1..(width - Len(d)) |-> 48] \o d

(***************************************************************************)
(* Cell values: the tagged union text / number / timestamp / missing.      *)
(* Every value is the same record shape.  A timestamp is kept as the       *)
(* number yyyymmdd, which orders as the dates do.                          *)
(***************************************************************************)
Str(s) == [k |-> "str", s |-> s, n |-> 0]
Num(n) == [k |-> "num", s |-> "", n |-> n]
Ts(n) == [k |-> "ts", s |-> "", n |-> n]
\* NaN, NaT, None
NA == [k |-> "na", s |-> "", n |-> 0]

\* pd.isna / pd.notna on a scalar
IsNA(v) == v.k = "na"

\* the integer part of a text "ddd" or "ddd.0", or -1
NumberText(cs) ==
    LET dot == {i \in 1..Len(cs) : cs[i] = 46}
        whole == IF dot = {} THEN cs
                 ELSE SubSeq(cs, 1, (CHOOSE i \in dot : \A j \in dot : i <= j) - 1)
        frac == IF dot = {} THEN <<>>
                ELSE SubSeq(cs, (CHOOSE i \in dot : \A j \in dot : i <= j) + 1, Len(cs))
    IN  IF /\ whole # <<>>
           /\ \A i \in 1..Len(whole) : IsDigit(whole[i])
           /\ (dot = {} \/ frac # <<>>)
           /\ \A i \in 1..Len(frac) : frac[i] = 48
        THEN DigitsValue(whole)
        ELSE -1

\* pd.to_numeric(..., errors="coerce") on one cell
ToNumeric(v) ==
    CASE v.k = "num" -> v
      [] v.k = "str" -> IF NumberText(Codes(v.s)) >= 0 THEN Num(NumberText(Codes(v.s))) ELSE NA
      [] v.k = "ts" -> Num(v.n)
      [] OTHER -> NA

\* yyyymmdd of a text "yyyy-mm-dd" naming a month 1..12 and a day 1..31, or -1
DateText(cs) ==
    IF /\ Len(cs) = 10
       /\ cs[5] = 45 /\ cs[8] = 45
       /\ \A i \in {1, 2, 3, 4, 6, 7, 9, 10} : IsDigit(cs[i])
       /\ DigitsValue(SubSeq(cs, 6, 7)) \in 1..12
       /\ DigitsValue(SubSeq(cs, 9, 10)) \in 1..31
    THEN DigitsValue(SubSeq(cs, 1, 4)) * 10000
         + DigitsValue(SubSeq(cs, 6, 7)) * 100
         + DigitsValue(SubSeq(cs, 9, 10))
    ELSE -1

\* pd.to_datetime(..., errors="coerce") on one cell
ToDatetime(v) ==
    CASE v.k = "ts" -> v
      [] v.k = "str" -> IF DateText(Codes(v.s)) >= 0 THEN Ts(DateText(Codes(v.s))) ELSE NA
      [] v.k = "num" -> Ts(19700101)
      [] OTHER -> NA

\* "yyyy-mm-dd"
FormatDate(n) ==
    FromCodes(Pad(n \div 10000, 4) \o <<45>> \o Pad((n \div 100) % 100, 2)
              \o <<45>> \o Pad(n % 100, 2))

\* Series.astype(str) on one cell of a column of the given dtype
AsStr(v, dtype) ==
    CASE v.k = "str" -> v.s
      [] v.k = "num" -> IF dtype = "float64"
                        THEN FromCodes(DigitsOf(v.n) \o <<46, 48>>)
                        ELSE FromCodes(DigitsOf(v.n))
      [] v.k = "ts" -> FormatDate(v.n)
      [] OTHER -> IF dtype = "datetime64" THEN "NaT" ELSE "nan"

\* str(v) on a scalar that is not None
PyStr(v) ==
    CASE v.k = "str" -> v.s
      [] v.k = "num" -> FromCodes(DigitsOf(v.n))
      [] v.k = "ts" -> FormatDate(v.n)
      [] OTHER -> "nan"

(***************************************************************************)
(* Tables (pandas DataFrame).  cols are the column names in file order,    *)
(* dtypes the storage type of each column, rows the rows in order; a row   *)
(* keeps its index label ix, so that equal rows stay distinct.  None is    *)
(* the value of the same shape with isNone set.                            *)
(***************************************************************************)
NoneDF == [isNone |-> TRUE, cols |-> <<>>, dtypes |-> <<>>, rows |-> <<>>]

\* the column name standing for Python's None
NoColumn == "<None>"

SeqToSet(s) == {s[i] : i \in 1..Len(s)}

HasColumn(df, col) == col \in SeqToSet(df.cols)

ColIndex(df, col) == CHOOSE i \in 1..Len(df.cols) : df.cols[i] = col

\* df[col] of one row
CellAt(df, row, col) == row.v[ColIndex(df, col)]

Dtype(df, col) == df.dtypes[ColIndex(df, col)]

\* the storage type pandas gives a column read from a sheet
InferDtype(cells) ==
    LET present == {i \in 1..Len(cells) : ~IsNA(cells[i])}
    IN  IF \E i \in present : cells[i].k = "str" THEN "object"
        ELSE IF present # {} /\ \A i \in present : cells[i].k = "ts" THEN "datetime64"
        ELSE IF present = DOMAIN cells /\ present # {} THEN "int64"
        ELSE "float64"

\* pd.read_excel: the sheet as a table, rows labelled 0, 1, ...
ReadExcel(file) ==
    [isNone |-> FALSE,
     cols |-> file.cols,
     dtypes |-> [c \in 1..Len(file.cols) |->
                    InferDtype([r \in 1..Len(file.rows) |-> file.rows[r][c]])],
     rows |-> [r \in 1..Len(file.rows) |-> [ix |-> r - 1, v |-> file.rows[r]]]]

\* DataFrame.empty: no rows or no columns
IsEmptyDF(df) == Len(df.rows) = 0 \/ Len(df.cols) = 0

\* df[col] = pd.to_datetime(df[col], errors="coerce")
ToDatetimeColumn(df, col) ==
    LET c == ColIndex(df, col)
    IN  [df EXCEPT !.dtypes[c] = "datetime64",
                   !.rows = [r \in 1..Len(df.rows) |->
                               [df.rows[r] EXCEPT !.v[c] = ToDatetime(df.rows[r].v[c])]]]

\* df[col] = df[col].astype(str)
AsTypeStrColumn(df, col) ==
    LET c == ColIndex(df, col)
    IN  [df EXCEPT !.dtypes[c] = "object",
                   !.rows = [r \in 1..Len(df.rows) |->
                               [df.rows[r] EXCEPT !.v[c] = Str(AsStr(df.rows[r].v[c], df.dtypes[c]))]]]

\* df[mask]: the rows whose index label is in keep, in order
SelectRows(df, keep) == [df EXCEPT !.rows = SelectSeq(df.rows, LAMBDA row : row.ix \in keep)]

(***************************************************************************)
(* Schema detection (CourseDataModel.detect_column).                      *)
(***************************************************************************)
STUDENT_ID_CANDIDATES ==
    <<"student_id", "Student ID", "StudentID", "studentnummer", "Studentnummer",
      "Relatienummer", "student", "ID">>

STUDENT_NAME_CANDIDATES ==
    <<"Naam", "name", "Naam student", "student_name", "Student Name">>

QID_CANDIDATES ==
    <<"Kwal. ID", "Kwalificatie ID", "kwalificatie_id", "Kwalificatie",
      "KwalificatieID", "QID", "qid">>

COMPLETION_CANDIDATES ==
    <<"Uitgifte", "Completion", "Completion Date", "CompletionDate">>

\* columns_lower[lowered]: the last column whose lower-cased name is lowered
ColumnsLower(columns, lowered) ==
    LET hits == {i \in 1..Len(columns) : LowerCodes(columns[i]) = lowered}
    IN  IF hits = {} THEN NoColumn
        ELSE columns[CHOOSE i \in hits : \A j \in hits : j <= i]

\* the loop looking for an exact match of every candidate before it looks
\* for a match in lower case
DetectFrom_exactfirst(columns, candidates, k) ==
    LET exact == {i \in k..Len(candidates) : candidates[i] \in SeqToSet(columns)}
        lower == {i \in k..Len(candidates) :
                    ColumnsLower(columns, LowerCodes(candidates[i])) # NoColumn}
    IN  IF exact # {} THEN candidates[CHOOSE i \in exact : \A j \in exact : i <= j]
        ELSE IF lower # {}
        THEN ColumnsLower(columns,
                          LowerCodes(candidates[CHOOSE i \in lower : \A j \in lower : i <= j]))
        ELSE NoColumn

RECURSIVE DetectFrom(_, _, _)
\* the loop over candidates, from candidate number k on
DetectFrom(columns, candidates, k) ==
    IF k > Len(candidates) THEN NoColumn
    ELSE IF candidates[k] \in SeqToSet(columns) THEN candidates[k]
    ELSE IF ColumnsLower(columns, LowerCodes(candidates[k])) # NoColumn
         THEN ColumnsLower(columns, LowerCodes(candidates[k]))
    ELSE DetectFrom(columns, candidates, k + 1)

\* the detection that tries the first candidate only
detect_column_first(columns, candidates) ==
    IF candidates[1] \in SeqToSet(columns) THEN candidates[1]
    ELSE ColumnsLower(columns, LowerCodes(candidates[1]))

detect_column(columns, candidates) == DetectFrom(columns, candidates, 1)

(***************************************************************************)
(* Filter engine (CourseDataModel.apply_filters).  A criterion is         *)
(* [column, operator, values, value_type]; the operators not-equal,  *)
(* at-most and at-least are written "!=", "<=", ">=".                      *)
(***************************************************************************)
\* [str(v) for v in criterion.values if pd.notna(v)]
CategoricalValues(criterion) ==
    LET kept == SelectSeq(criterion.values, LAMBDA v : ~IsNA(v))
    IN  [i \in 1..Len(kept) |-> PyStr(kept[i])]

\* the coercion of the column and of the bounds for a numeric or date criterion
Coerce(criterion, v) ==
    IF criterion.value_type = "date" THEN ToDatetime(v) ELSE ToNumeric(v)

\* start = coerce(values[0])
StartOf(criterion) == Coerce(criterion, criterion.values[1])

\* end = coerce(values[1]) if len(values) > 1 else None
EndOf(criterion) ==
    IF Len(criterion.values) > 1 THEN Coerce(criterion, criterion.values[2]) ELSE NA

\* the `continue` branches without the one for an unparseable start value
CriterionSkipped_start(criterion, df) ==
    \/ ~HasColumn(df, criterion.column)
    \/ /\ criterion.value_type = "categorical"
       /\ CategoricalValues(criterion) = <<>>
    \/ /\ criterion.value_type # "categorical"
       /\ criterion.values = <<>>

\* the `continue` branches: the criterion leaves the table as it is
CriterionSkipped(criterion, df) ==
    \/ ~HasColumn(df, criterion.column)
    \/ /\ criterion.value_type = "categorical"
       /\ CategoricalValues(criterion) = <<>>
    \/ /\ criterion.value_type # "categorical"
       /\ \/ criterion.values = <<>>
          \/ IsNA(StartOf(criterion))

\* a comparison of a coerced cell with a bound: with a missing cell every
\* comparison is False and != is True
Compare(op, cell, bound) ==
    IF IsNA(cell) THEN op = "!="
    ELSE CASE op = "!=" -> cell.n # bound.n
           [] op = "<" -> cell.n < bound.n
           [] op = "<=" -> cell.n <= bound.n
           [] op = ">" -> cell.n > bound.n
           [] op = ">=" -> cell.n >= bound.n
           [] OTHER -> cell.n = bound.n

\* between without a usable end read as "at least start"
RangeMask_atleast(criterion, cell) ==
    IF criterion.operator = "between" /\ ~IsNA(EndOf(criterion))
    THEN Compare(">=", cell, StartOf(criterion)) /\ Compare("<=", cell, EndOf(criterion))
    ELSE IF criterion.operator = "between" THEN Compare(">=", cell, StartOf(criterion))
    ELSE Compare(criterion.operator, cell, StartOf(criterion))

\* between with its end excluded
RangeMask_open(criterion, cell) ==
    IF criterion.operator = "between" /\ ~IsNA(EndOf(criterion))
    THEN Compare(">=", cell, StartOf(criterion)) /\ Compare("<", cell, EndOf(criterion))
    ELSE Compare(criterion.operator, cell, StartOf(criterion))

\* mask[row] of a numeric or date criterion
RangeMask(criterion, cell) ==
    IF criterion.operator = "between" /\ ~IsNA(EndOf(criterion))
    THEN Compare(">=", cell, StartOf(criterion)) /\ Compare("<=", cell, EndOf(criterion))
    ELSE Compare(criterion.operator, cell, StartOf(criterion))

\* in and not in looking at the first value only
CategoricalMask_first(criterion, text) ==
    LET values == CategoricalValues(criterion)
    IN  CASE criterion.operator \in {"is", "in"} -> text = values[1]
          [] OTHER -> text # values[1]

\* mask[row] of a categorical criterion
CategoricalMask(criterion, text) ==
    LET values == CategoricalValues(criterion)
    IN  CASE criterion.operator = "is" -> text = values[1]
          [] criterion.operator = "is not" -> text # values[1]
          [] criterion.operator = "not in" -> text \notin SeqToSet(values)
          [] OTHER -> text \in SeqToSet(values)

\* mask[row] of a criterion that is not skipped
Mask(criterion, df, row) ==
    IF criterion.value_type = "categorical"
    THEN CategoricalMask(criterion,
                         AsStr(CellAt(df, row, criterion.column), Dtype(df, criterion.column)))
    ELSE RangeMask(criterion, Coerce(criterion, CellAt(df, row, criterion.column)))

\* one turn of the loop: filtered = filtered[mask], or continue
ApplyCriterion(criterion, df) ==
    IF CriterionSkipped(criterion, df) THEN df
    ELSE SelectRows(df, {df.rows[r].ix : r \in {r \in 1..Len(df.rows) :
                                                   Mask(criterion, df, df.rows[r])}})

RECURSIVE ApplyLoop(_, _, _)
\* the loop over self.filters, from criterion number k on
ApplyLoop(fs, k, filtered) ==
    IF k > Len(fs) THEN filtered
    ELSE ApplyLoop(fs, k + 1, ApplyCriterion(fs[k], filtered))

\* the loop returning after its first criterion
apply_filters_first(fs, df) == IF fs = <<>> THEN df ELSE ApplyCriterion(fs[1], df)

\* apply_filters(df) with self.filters = fs
apply_filters(fs, df) == IF fs = <<>> THEN df ELSE ApplyLoop(fs, 1, df)

(***************************************************************************)
(* Course catalog.  A course row carries its product id, its name-like     *)
(* fields in the order _course_label probes them ("naam", "name",          *)
(* "course_name", "title"; missing when the field is absent or empty) and  *)
(* its nested qualification list.  An entry of that list that is a dict    *)
(* carries the values under "Kwal. ID", "Kwalificatie ID",                 *)
(* "kwalificatie_id", in that order (missing when the key is absent or     *)
(* null).                                                                  *)
(***************************************************************************)
NoList == [isList |-> FALSE, items |-> <<>>]

NoneRow == [isNone |-> TRUE, pid |-> "", names |-> <<NA, NA, NA, NA>>, kwalificaties |-> NoList]

\* Python truthiness of a value
Truthy(v) ==
    CASE v.k = "str" -> v.s # ""
      [] v.k = "num" -> v.n # 0
      [] v.k = "ts" -> TRUE
      [] OTHER -> FALSE

\* a or b
PyOr(a, b) == IF Truthy(a) THEN a ELSE b

\* kwal.get("Kwal. ID") or kwal.get("Kwalificatie ID") or kwal.get("kwalificatie_id")
KwalQid(kwal) == PyOr(PyOr(kwal.ids[1], kwal.ids[2]), kwal.ids[3])

RECURSIVE KwalLoop_first(_, _, _, _)
\* the loop keeping the row an id was first indexed with
KwalLoop_first(lookup, row, items, k) ==
    IF k > Len(items) THEN lookup
    ELSE IF items[k].isDict /\ ~IsNA(KwalQid(items[k]))
         THEN KwalLoop_first(lookup @@ (PyStr(KwalQid(items[k])) :> row), row, items, k + 1)
         ELSE KwalLoop_first(lookup, row, items, k + 1)

RECURSIVE KwalLoop(_, _, _, _)
\* the loop over one row's qualification entries, from entry number k on
KwalLoop(lookup, row, items, k) ==
    IF k > Len(items) THEN lookup
    ELSE IF items[k].isDict /\ ~IsNA(KwalQid(items[k]))
         THEN KwalLoop((PyStr(KwalQid(items[k])) :> row) @@ lookup, row, items, k + 1)
         ELSE KwalLoop(lookup, row, items, k + 1)

RECURSIVE RowLoop(_, _, _)
\* the loop over the course rows, from row number k on
RowLoop(lookup, rows, k) ==
    IF k > Len(rows) THEN lookup
    ELSE IF rows[k].kwalificaties.isList
         THEN RowLoop(KwalLoop(lookup, rows[k], rows[k].kwalificaties.items, 1), rows, k + 1)
         ELSE RowLoop(lookup, rows, k + 1)

\* the empty dict
EmptyLookup == [q \in {} |-> NoneRow]

\* _build_course_lookup: the index is cleared, then filled row by row
build_course_lookup(df) ==
    IF df.isNone THEN EmptyLookup ELSE RowLoop(EmptyLookup, df.rows, 1)

\* dict.get(qid)
LookupGet(lookup, qid) == IF qid \in DOMAIN lookup THEN lookup[qid] ELSE NoneRow

\* value.strip() is not empty
NotBlank(s) == \E i \in 1..Len(Codes(s)) : Codes(s)[i] \notin {9, 10, 13, 32}

\* _course_label: "<name> (<qid>)" is the pair <<name, qid>>, the bare id is <<qid>>
course_label(course_row, qid) ==
    LET usable == {i \in 1..4 : /\ course_row.names[i].k = "str"
                                /\ NotBlank(course_row.names[i].s)}
    IN  IF course_row.isNone \/ usable = {} THEN <<qid>>
        ELSE <<course_row.names[CHOOSE i \in usable : \A j \in usable : i <= j].s, qid>>

(***************************************************************************)
(* State of a CourseDataModel (data_model.py, __init__), and:              *)
(*   last   the operation called last and how it ended ("ok" or the name   *)
(*          of the exception it raised);                                   *)
(*   probe  the filter engine applied on its own (FilterSpec).             *)
(***************************************************************************)
VARIABLES students_df, courses_df, kwalificaties_df, student_id_column,
          student_name_column, qid_column, completion_column,
          course_lookup_by_qid, matrix_data, filters, last, probe

\* the fields of the data model
fields == <<students_df, courses_df, kwalificaties_df, student_id_column,
            student_name_column, qid_column, completion_column,
            course_lookup_by_qid, matrix_data, filters>>

vars == <<fields, last, probe>>

(***************************************************************************)
(* Matrix data.  Row and column indices count from 0, as in the code; a    *)
(* cell_lookup is a function on the pairs <<row, column>> that have a      *)
(* cell.  An absent completion date is NA.                                 *)
(***************************************************************************)
MatrixData(students, courses, cell_lookup) ==
    [students |-> students, courses |-> courses, cell_lookup |-> cell_lookup]

StudentDescriptor(identifier, label, rows) ==
    [identifier |-> identifier, label |-> label, rows |-> rows]

CourseDescriptor(qid, label, course_row) ==
    [qid |-> qid, label |-> label, course_row |-> course_row]

CellDescriptor(student, course, completion_date, student_rows) ==
    [student |-> student, course |-> course,
     completion_date |-> completion_date, student_rows |-> student_rows]

\* MatrixData([], [], {})
EmptyMatrix == MatrixData(<<>>, <<>>, [p \in {} |-> NoneDF])

\* MatrixData.is_empty
is_empty(m) == m.students = <<>> \/ m.courses = <<>>

\* the order of group keys and of sorted ids: text by code point, numbers by value
ValueLess(a, b) ==
    IF a.k = "str" /\ b.k = "str" THEN StrLess(a.s, b.s)
    ELSE IF a.k = "str" \/ b.k = "str" THEN b.k = "str"
    ELSE a.n < b.n

RECURSIVE SortedValues(_)
\* the values of a set in ascending order
SortedValues(S) ==
    IF S = {} THEN <<>>
    ELSE LET least == CHOOSE x \in S : \A y \in S \ {x} : ValueLess(x, y)
         IN  <<least>> \o SortedValues(S \ {least})

\* the keys of df.groupby(col): the distinct values that are not missing, sorted
GroupKeys(df, col) ==
    SortedValues({CellAt(df, df.rows[r], col) : r \in 1..Len(df.rows)} \ {NA})

\* the rows of one group, in table order
GroupRows(df, col, key) ==
    SelectRows(df, {df.rows[r].ix : r \in {r \in 1..Len(df.rows) :
                                            CellAt(df, df.rows[r], col) = key}})

\* the loop that builds the student axis (build_matrix, lines 215-223)
StudentAxis(df) ==
    LET keys == GroupKeys(df, student_id_column)
        named == student_name_column # NoColumn /\ HasColumn(df, student_name_column)
    IN  [i \in 1..Len(keys) |->
           LET student_rows == GroupRows(df, student_id_column, keys[i])
               student_id == AsStr(keys[i], Dtype(df, student_id_column))
               label == IF named
                        THEN <<AsStr(CellAt(df, student_rows.rows[1], student_name_column),
                                     Dtype(df, student_name_column)), student_id>>
                        ELSE <<student_id>>
           IN  StudentDescriptor(student_id, label, student_rows)]

\* unique_qids, sorted (lines 229-236)
UniqueQids(df) ==
    LET texts == {Str(AsStr(CellAt(df, df.rows[r], qid_column), Dtype(df, qid_column))) :
                    r \in {r \in 1..Len(df.rows) : ~IsNA(CellAt(df, df.rows[r], qid_column))}}
        sorted == SortedValues(texts)
    IN  [i \in 1..Len(sorted) |-> sorted[i].s]

\* the loop that builds the course axis (lines 238-242)
CourseAxis(unique_qids) ==
    [i \in 1..Len(unique_qids) |->
       LET course_row == LookupGet(course_lookup_by_qid, unique_qids[i])
       IN  CourseDescriptor(unique_qids[i], course_label(course_row, unique_qids[i]),
                            course_row)]

\* the earliest date of the group in place of the latest
CompletionDate_min(rows) ==
    LET dates == {ToDatetime(CellAt(rows, rows.rows[r], completion_column)) :
                    r \in 1..Len(rows.rows)} \ {NA}
    IN  IF dates = {} THEN NA
        ELSE CHOOSE d \in dates : \A e \in dates : d.n <= e.n

\* completion_series.max(), or None when every date of the group is missing
CompletionDate(rows) ==
    LET dates == {ToDatetime(CellAt(rows, rows.rows[r], completion_column)) :
                    r \in 1..Len(rows.rows)} \ {NA}
    IN  IF dates = {} THEN NA
        ELSE CHOOSE d \in dates : \A e \in dates : e.n <= d.n

\* the qualification groups of one student (line 254), as <<key, str(key)>>
QidGroups(student) ==
    LET keys == GroupKeys(student.rows, qid_column)
    IN  [i \in 1..Len(keys) |-> <<keys[i], AsStr(keys[i], Dtype(student.rows, qid_column))>>]

\* the cells keyed by (column, row) in place of (row, column)
CellLookup_transposed(students, courses) ==
    LET hits(r, c) == {g \in 1..Len(QidGroups(students[r])) :
                         QidGroups(students[r])[g][2] = courses[c].qid}
        keyset == {<<c - 1, r - 1>> : r \in 1..Len(students), c \in 1..Len(courses)}
        made == {p \in keyset : hits(p[2] + 1, p[1] + 1) # {}}
    IN  [p \in made |->
           LET student == students[p[2] + 1]
               g == CHOOSE g \in hits(p[2] + 1, p[1] + 1) :
                      \A g2 \in hits(p[2] + 1, p[1] + 1) : g2 <= g
               rows == GroupRows(student.rows, qid_column, QidGroups(student)[g][1])
           IN  CellDescriptor(student, courses[p[1] + 1], CompletionDate(rows), rows)]

\* the cells (lines 250-271): the last group of a student whose key reads as
\* the course's qid makes the cell
CellLookup(students, courses) ==
    LET hits(r, c) == {g \in 1..Len(QidGroups(students[r])) :
                         QidGroups(students[r])[g][2] = courses[c].qid}
        keyset == {<<r - 1, c - 1>> : r \in 1..Len(students), c \in 1..Len(courses)}
        made == {p \in keyset : hits(p[1] + 1, p[2] + 1) # {}}
    IN  [p \in made |->
           LET student == students[p[1] + 1]
               g == CHOOSE g \in hits(p[1] + 1, p[2] + 1) :
                      \A g2 \in hits(p[1] + 1, p[2] + 1) : g2 <= g
               rows == GroupRows(student.rows, qid_column, QidGroups(student)[g][1])
           IN  CellDescriptor(student, courses[p[2] + 1], CompletionDate(rows), rows)]

\* build_matrix: how it ends and the matrix it returns
build_matrix ==
    IF students_df.isNone \/ courses_df.isNone
    THEN [outcome |-> "ok", matrix |-> EmptyMatrix]
    ELSE LET filtered == apply_filters(filters, students_df)
         IN  IF student_id_column = NoColumn
             THEN [outcome |-> "TypeError", matrix |-> matrix_data]
             ELSE IF ~HasColumn(filtered, student_id_column)
             THEN [outcome |-> "KeyError", matrix |-> matrix_data]
             ELSE LET students == StudentAxis(filtered)
         IN  IF students = <<>>
             THEN [outcome |-> "ok", matrix |-> EmptyMatrix]
             ELSE IF ~HasColumn(filtered, qid_column)
             THEN [outcome |-> "KeyError", matrix |-> matrix_data]
             ELSE LET courses == CourseAxis(UniqueQids(filtered))
         IN  IF courses = <<>>
             THEN [outcome |-> "ok", matrix |-> MatrixData(students, <<>>, EmptyMatrix.cell_lookup)]
             ELSE IF /\ ~HasColumn(filtered, completion_column)
                     /\ \E r \in 1..Len(students) : QidGroups(students[r]) # <<>>
             THEN [outcome |-> "KeyError", matrix |-> matrix_data]
             ELSE [outcome |-> "ok",
                   matrix |-> MatrixData(students, courses, CellLookup(students, courses))]

\* get_cell(row, column): {the cell}, or {} for None
get_cell(row, column) ==
    IF DOMAIN matrix_data.cell_lookup = {} THEN {}
    ELSE IF <<row, column>> \in DOMAIN matrix_data.cell_lookup
         THEN {matrix_data.cell_lookup[<<row, column>>]}
         ELSE {}

\* get_course_by_qid(qid)
get_course_by_qid(qid) == LookupGet(course_lookup_by_qid, qid)

(***************************************************************************)
(* The files the operations are called with.  A student file is a sheet:   *)
(* [exists, cols, rows], each row the cells under cols.  Student ids and   *)
(* qualification ids are text or missing; the completion cells are ISO     *)
(* dates, other text or missing; Score holds numbers, text and missing.    *)
(***************************************************************************)
FullCols == <<"Relatienummer", "Naam", "Kwal. ID", "Uitgifte", "Score">>

Row1 == <<Str("S1"), Str("Ann"), Str("Q1"), Str("2024-01-01"), Num(5)>>
Row2 == <<Str("S1"), Str("Ann"), Str("Q1"), Str("2024-03-01"), Num(10)>>
Row3 == <<Str("S2"), Str("Bob"), Str("Q2"), Str("x"), Str("x")>>
Row4 == <<Str("S2"), Str("Bob"), Str("Q2"), Str("2024-02-01"), Str("7")>>
Row5 == <<Str("S2"), Str("Bob"), NA, NA, NA>>
Row6 == <<NA, NA, Str("Q1"), Str("2024-01-01"), Num(5)>>
\* rows whose student id is a number
Row7 == <<Num(9), Str("Ann"), Str("Q1"), Str("2024-01-01"), Num(5)>>
Row8 == <<Num(10), Str("Bob"), Str("Q2"), Str("2024-02-01"), Num(7)>>
Row9 == <<Num(9), Str("Ann"), NA, NA, NA>>
Row10 == <<Num(10), Str("Bob"), NA, NA, NA>>

\* the rows of the generated sheets
RowChoices == {Row1, Row2, Row3}

\* the sheets of 1..MaxRows rows over RowChoices
RowSeqs == UNION {[1..n -> RowChoices] : n \in 1..MaxRows}

Sheet(cols, rows) == [exists |-> TRUE, cols |-> cols, rows |-> rows]

\* a sheet without the columns named in drop
Without(file, drop) ==
    LET keep == {i \in 1..Len(file.cols) : file.cols[i] \notin drop}
        pick(s) == LET RECURSIVE take(_)
                       take(i) == IF i > Len(s) THEN <<>>
                                  ELSE (IF i \in keep THEN <<s[i]>> ELSE <<>>) \o take(i + 1)
                   IN  take(1)
    IN  [file EXCEPT !.cols = pick(file.cols),
                     !.rows = [r \in 1..Len(file.rows) |-> pick(file.rows[r])]]

MissingFile == [exists |-> FALSE, cols |-> <<>>, rows |-> <<>>]

\* sheets in which every required column is found
GoodFiles ==
    {Sheet(FullCols, rows) : rows \in RowSeqs}
    \cup {Without(Sheet(FullCols, <<Row3, Row1>>), {"Naam"}),
          Sheet(FullCols, <<Row3, Row4>>), Sheet(FullCols, <<Row6, Row1>>),
          Sheet(FullCols, <<Row2, Row1, Row3>>), Sheet(FullCols, <<Row7, Row8>>),
          Sheet(FullCols, <<Row5>>), Sheet(FullCols, <<Row1, Row5>>),
          Sheet(FullCols, <<Row5, Row3>>)}

\* sheets on which load_students raises
BadFiles ==
    {MissingFile, Sheet(FullCols, <<>>)}
    \cup {Without(Sheet(FullCols, <<Row1>>), {"Relatienummer"})}
    \cup {Without(Sheet(FullCols, rows), {"Kwal. ID"}) : rows \in {<<Row1>>, <<Row6>>}}
    \cup {Without(Sheet(FullCols, rows), {"Uitgifte"}) :
            rows \in {<<Row1>>, <<Row5>>, <<Row6>>, <<Row6, Row5>>, <<Row9, Row10>>}}

StudentFiles == GoodFiles \cup BadFiles

(***************************************************************************)
(* Course files: what load_courses_from_hdf5 returns for the store, the    *)
(* nested qualification lists already decoded.                             *)
(***************************************************************************)
Kwal(a, b, c) == [isDict |-> TRUE, ids |-> <<a, b, c>>]

KwalList(items) == [isList |-> TRUE, items |-> items]

CourseRow(pid, naam, kwalificaties) ==
    [isNone |-> FALSE, pid |-> pid, names |-> <<naam, NA, NA, NA>>,
     kwalificaties |-> kwalificaties]

CourseA == CourseRow("P1", Str("Basis"), KwalList(<<Kwal(Str("Q1"), NA, NA)>>))
CourseB == CourseRow("P2", Str("Vervolg"),
                     KwalList(<<Kwal(NA, Str("Q2"), NA), Kwal(NA, NA, Str("Q9"))>>))
CourseC == CourseRow("P3", Str(" "), KwalList(<<Kwal(Str("Q1"), Str("Q2"), NA)>>))
CourseD == CourseRow("P4", Str("Basis"), NoList)
\* a course whose entries carry the ids 0 and "" under the first key
CourseE == CourseRow("P5", Str("Vervolg"),
                     KwalList(<<Kwal(Num(0), Str("Q2"), NA), Kwal(Str(""), NA, NA)>>))

Store(tag, rows) == [exists |-> TRUE, tag |-> tag, rows |-> rows]

MissingStore == [exists |-> FALSE, tag |-> "", rows |-> <<>>]

CourseFiles ==
    {Store("h1", <<CourseA, CourseB>>), Store("h2", <<CourseA, CourseC>>),
     Store("h3", <<CourseD>>), Store("h4", <<>>), Store("h5", <<CourseE>>), MissingStore}

NoneCourses == [isNone |-> TRUE, rows |-> <<>>]

\* the secondary table, passed through: None, or the table of the store tagged tag
NoneKwalificaties == [isNone |-> TRUE, tag |-> ""]

(***************************************************************************)
(* Criteria.                                                               *)
(***************************************************************************)
FilterCriterion(column, operator, values, value_type) ==
    [column |-> column, operator |-> operator, values |-> values, value_type |-> value_type]

\* the criterion lists set_filters is called with
FilterChoices ==
    {<<>>,
     <<FilterCriterion("Kwal. ID", "is", <<Str("Q1")>>, "categorical")>>,
     <<FilterCriterion("Kwal. ID", "is", <<Str("Q9")>>, "categorical")>>,
     <<FilterCriterion("Score", "!=", <<Num(5)>>, "numeric")>>,
     <<FilterCriterion("Uitgifte", "between", <<Ts(20240101), Ts(20240201)>>, "date")>>,
     <<FilterCriterion("Afdeling", "is", <<Str("x")>>, "categorical"),
       FilterCriterion("Relatienummer", "in", <<Str("S2"), Str("nan")>>, "categorical")>>}

(***************************************************************************)
(* Operations of the data model.                                           *)
(***************************************************************************)
\* arg: the list set_filters was called with (<<>> for the other operations)
Called(op, outcome) == [op |-> op, outcome |-> outcome, arg |-> <<>>]

ProbeOff == [pc |-> "off", df |-> NoneDF, fs |-> <<>>, out |-> NoneDF]

\* CourseDataModel.__init__
Init ==
    /\ students_df = NoneDF
    /\ courses_df = NoneCourses
    /\ kwalificaties_df = NoneKwalificaties
    /\ student_id_column = NoColumn
    /\ student_name_column = NoColumn
    /\ qid_column = NoColumn
    /\ completion_column = NoColumn
    /\ course_lookup_by_qid = EmptyLookup
    /\ matrix_data = EmptyMatrix
    /\ filters = <<>>
    /\ last = Called("init", "ok")
    /\ probe = ProbeOff

\* lines 187-189: the three in-place conversions of a successful load
Normalised(df, sid, qid, completion) ==
    AsTypeStrColumn(AsTypeStrColumn(ToDatetimeColumn(df, completion), qid), sid)

\* what load_students computes from the file alone: the sheet read, the
\* columns detected in it, and the table after the conversions of lines 187-189
ReadStudents(file) ==
    LET df == ReadExcel(file)
        sid == detect_column(df.cols, STUDENT_ID_CANDIDATES)
        qid == detect_column(df.cols, QID_CANDIDATES)
        completion == detect_column(df.cols, COMPLETION_CANDIDATES)
    IN  [exists |-> file.exists, df |-> df, sid |-> sid, qid |-> qid,
         completion |-> completion,
         name |-> detect_column(df.cols, STUDENT_NAME_CANDIDATES),
         converted |-> IF NoColumn \in {sid, qid, completion} THEN df
                       ELSE Normalised(df, sid, qid, completion)]

\* the student files, read
StudentReads == {ReadStudents(file) : file \in StudentFiles}

\* load_students(path), on the file read as rd: the statements in order, each
\* raise leaving what was assigned before it
load_students(rd) ==
    /\ UNCHANGED <<courses_df, kwalificaties_df, course_lookup_by_qid, probe>>
    /\ IF ~rd.exists
       THEN /\ last' = Called("load_students", "FileNotFoundError")
            /\ UNCHANGED <<students_df, student_id_column, student_name_column,
                           qid_column, completion_column, matrix_data, filters>>
       ELSE IF IsEmptyDF(rd.df)
       THEN /\ last' = Called("load_students", "ValueError")
            /\ UNCHANGED <<students_df, student_id_column, student_name_column,
                           qid_column, completion_column, matrix_data, filters>>
       ELSE IF rd.sid = NoColumn
       THEN /\ students_df' = rd.df
            /\ student_id_column' = rd.sid
            /\ last' = Called("load_students", "KeyError")
            /\ UNCHANGED <<student_name_column, qid_column, completion_column,
                           matrix_data, filters>>
       ELSE IF rd.qid = NoColumn
       THEN /\ students_df' = rd.df
            /\ student_id_column' = rd.sid
            /\ qid_column' = rd.qid
            /\ last' = Called("load_students", "KeyError")
            /\ UNCHANGED <<student_name_column, completion_column, matrix_data, filters>>
       ELSE IF rd.completion = NoColumn
       THEN /\ students_df' = rd.df
            /\ student_id_column' = rd.sid
            /\ qid_column' = rd.qid
            /\ completion_column' = rd.completion
            /\ last' = Called("load_students", "KeyError")
            /\ UNCHANGED <<student_name_column, matrix_data, filters>>
       ELSE /\ students_df' = rd.converted
            /\ student_id_column' = rd.sid
            /\ qid_column' = rd.qid
            /\ completion_column' = rd.completion
            /\ student_name_column' = rd.name
            /\ matrix_data' = EmptyMatrix
            /\ filters' = <<>>
            /\ last' = Called("load_students", "ok")

\* load_courses storing the table it read before it rejects an empty one
load_courses_early(file) ==
    /\ UNCHANGED <<students_df, student_id_column, student_name_column, qid_column,
                   completion_column, filters, probe>>
    /\ IF ~file.exists
       THEN /\ last' = Called("load_courses", "FileNotFoundError")
            /\ UNCHANGED <<courses_df, kwalificaties_df, course_lookup_by_qid, matrix_data>>
       ELSE IF Len(file.rows) = 0
       THEN /\ courses_df' = [isNone |-> FALSE, rows |-> file.rows]
            /\ last' = Called("load_courses", "ValueError")
            /\ UNCHANGED <<kwalificaties_df, course_lookup_by_qid, matrix_data>>
       ELSE /\ courses_df' = [isNone |-> FALSE, rows |-> file.rows]
            /\ kwalificaties_df' = [isNone |-> FALSE, tag |-> file.tag]
            /\ course_lookup_by_qid' = build_course_lookup(courses_df')
            /\ matrix_data' = EmptyMatrix
            /\ last' = Called("load_courses", "ok")

\* load_courses(path), the store read as file
load_courses(file) ==
    /\ UNCHANGED <<students_df, student_id_column, student_name_column, qid_column,
                   completion_column, filters, probe>>
    /\ IF ~file.exists
       THEN /\ last' = Called("load_courses", "FileNotFoundError")
            /\ UNCHANGED <<courses_df, kwalificaties_df, course_lookup_by_qid, matrix_data>>
       ELSE IF Len(file.rows) = 0
       THEN /\ last' = Called("load_courses", "ValueError")
            /\ UNCHANGED <<courses_df, kwalificaties_df, course_lookup_by_qid, matrix_data>>
       ELSE /\ courses_df' = [isNone |-> FALSE, rows |-> file.rows]
            /\ kwalificaties_df' = [isNone |-> FALSE, tag |-> file.tag]
            /\ course_lookup_by_qid' = build_course_lookup(courses_df')
            /\ matrix_data' = EmptyMatrix
            /\ last' = Called("load_courses", "ok")

\* set_filters keeping the cached matrix
set_filters_keep(fs) ==
    /\ filters' = fs
    /\ last' = [Called("set_filters", "ok") EXCEPT !.arg = fs]
    /\ UNCHANGED <<students_df, courses_df, kwalificaties_df, student_id_column,
                   student_name_column, qid_column, completion_column,
                   course_lookup_by_qid, matrix_data, probe>>

\* set_filters(filters)
set_filters(fs) ==
    /\ filters' = fs
    /\ matrix_data' = EmptyMatrix
    /\ last' = [Called("set_filters", "ok") EXCEPT !.arg = fs]
    /\ UNCHANGED <<students_df, courses_df, kwalificaties_df, student_id_column,
                   student_name_column, qid_column, completion_column,
                   course_lookup_by_qid, probe>>

\* build_matrix() that keeps the filtered table as the student table
BuildMatrix_inplace ==
    /\ matrix_data' = build_matrix.matrix
    /\ last' = Called("build_matrix", build_matrix.outcome)
    /\ students_df' = IF students_df.isNone \/ courses_df.isNone THEN students_df
                      ELSE apply_filters(filters, students_df)
    /\ UNCHANGED <<courses_df, kwalificaties_df, student_id_column,
                   student_name_column, qid_column, completion_column,
                   course_lookup_by_qid, filters, probe>>

\* build_matrix(): the cached matrix is replaced when the call returns
BuildMatrix ==
    /\ matrix_data' = build_matrix.matrix
    /\ last' = Called("build_matrix", build_matrix.outcome)
    /\ UNCHANGED <<students_df, courses_df, kwalificaties_df, student_id_column,
                   student_name_column, qid_column, completion_column,
                   course_lookup_by_qid, filters, probe>>

LoadStudents == \E rd \in StudentReads : load_students(rd)

LoadCourses == \E file \in CourseFiles : load_courses(file)

SetFilters == \E fs \in FilterChoices : set_filters(fs)

Next == LoadStudents \/ LoadCourses \/ SetFilters \/ BuildMatrix

Spec == Init /\ [][Next]_vars

(***************************************************************************)
(* The filter engine on its own: _apply_filters as a function of the       *)
(* table it is given and of self.filters.  The tables are the generated    *)
(* sheets as read and as a successful load leaves them.                    *)
(***************************************************************************)
FilterRows == {Row1, Row2, Row3, Row4, Row5}

FilterSheets == {Sheet(FullCols, rows) : rows \in UNION {[1..n -> FilterRows] : n \in 1..MaxRows}}

FilterTables ==
    {ReadStudents(file).df : file \in FilterSheets}
    \cup {ReadStudents(file).converted : file \in FilterSheets}

CompareOps == {"=", "!=", "<", "<=", ">", ">="}

NumericCriteria ==
    {FilterCriterion("Score", op, vs, "numeric") :
       op \in CompareOps, vs \in {<<Num(7)>>, <<Str("x")>>, <<>>}}
    \cup {FilterCriterion("Score", "between", vs, "numeric") :
            vs \in {<<Num(5), Num(10)>>, <<Num(10), Num(5)>>, <<Num(7)>>, <<Num(7), Str("x")>>,
                    <<Str("x"), Num(10)>>, <<NA, Num(10)>>, <<>>}}

DateCriteria ==
    {FilterCriterion("Uitgifte", op, vs, "date") :
       op \in CompareOps, vs \in {<<Ts(20240201)>>, <<Str("x")>>, <<>>}}
    \cup {FilterCriterion("Uitgifte", "between", vs, "date") :
            vs \in {<<Ts(20240101), Ts(20240201)>>, <<Ts(20240301), Ts(20240101)>>,
                    <<Ts(20240201)>>, <<Ts(20240201), Str("x")>>,
                    <<Str("x"), Ts(20240201)>>, <<NA, Ts(20240201)>>, <<>>}}

CategoricalOps == {"is", "is not", "in", "not in"}

CategoricalCriteria ==
    {FilterCriterion("Kwal. ID", op, vs, "categorical") :
       op \in CategoricalOps,
       vs \in {<<>>, <<NA>>, <<Str("Q1")>>, <<Str("Q1"), Str("Q2")>>, <<NA, Str("Q2")>>}}
    \cup {FilterCriterion("Score", op, vs, "categorical") :
            op \in CategoricalOps, vs \in {<<Num(5)>>, <<Str("5"), Str("x")>>}}

\* criteria on a column no table has
AbsentCriteria ==
    {FilterCriterion("Afdeling", "is", <<Str("x")>>, "categorical"),
     FilterCriterion("Afdeling", "=", <<Num(5)>>, "numeric"),
     FilterCriterion("Afdeling", "<", <<Ts(20240201)>>, "date")}

Criteria == NumericCriteria \cup DateCriteria \cup CategoricalCriteria \cup AbsentCriteria

\* the criteria the longer lists are made of
CoreCriteria ==
    {FilterCriterion("Afdeling", "is", <<Str("x")>>, "categorical"),
     FilterCriterion("Kwal. ID", "is", <<Str("Q1")>>, "categorical"),
     FilterCriterion("Kwal. ID", "in", <<NA>>, "categorical"),
     FilterCriterion("Score", "!=", <<Num(7)>>, "numeric"),
     FilterCriterion("Score", "<", <<Str("x")>>, "numeric"),
     FilterCriterion("Uitgifte", "between", <<Ts(20240101), Ts(20240201)>>, "date"),
     FilterCriterion("Uitgifte", "between", <<>>, "date")}

CriterionLists ==
    {<<c>> : c \in Criteria} \cup UNION {[1..n -> CoreCriteria] : n \in 0..MaxCriteria}

FilterInit ==
    /\ students_df = NoneDF
    /\ courses_df = NoneCourses
    /\ kwalificaties_df = NoneKwalificaties
    /\ student_id_column = NoColumn
    /\ student_name_column = NoColumn
    /\ qid_column = NoColumn
    /\ completion_column = NoColumn
    /\ course_lookup_by_qid = EmptyLookup
    /\ matrix_data = EmptyMatrix
    /\ filters = <<>>
    /\ last = Called("init", "ok")
    /\ probe \in [pc : {"ready"}, df : FilterTables, fs : CriterionLists, out : {NoneDF}]

\* _apply_filters(df) with self.filters = fs
FilterApply ==
    /\ probe.pc = "ready"
    /\ probe' = [probe EXCEPT !.pc = "done", !.out = apply_filters(probe.fs, probe.df)]
    /\ UNCHANGED <<fields, last>>

FilterSpec == FilterInit /\ [][FilterApply]_vars

(***************************************************************************)
(* _detect_column on its own: probe holds the header (columns), the        *)
(* candidates and the column returned.                                     *)
(***************************************************************************)
\* the column names the generated headers are made of
HeaderNames == {"uitgifte", "Uitgifte", "qid", "QID", "Naam", "Score"}

\* the names the generated candidate lists are made of
CandidateNames == {"Uitgifte", "Completion", "QID", "qid", "Naam"}

\* the headers: up to MaxColumns different names in any order
Headers ==
    UNION {{h \in [1..n -> HeaderNames] : \A i, j \in 1..n : i # j => h[i] # h[j]} :
             n \in 0..MaxColumns}

CandidateLists == UNION {[1..n -> CandidateNames] : n \in 1..MaxCandidates}

DetectInit ==
    /\ students_df = NoneDF
    /\ courses_df = NoneCourses
    /\ kwalificaties_df = NoneKwalificaties
    /\ student_id_column = NoColumn
    /\ student_name_column = NoColumn
    /\ qid_column = NoColumn
    /\ completion_column = NoColumn
    /\ course_lookup_by_qid = EmptyLookup
    /\ matrix_data = EmptyMatrix
    /\ filters = <<>>
    /\ last = Called("init", "ok")
    /\ probe \in [pc : {"ready"}, columns : Headers, candidates : CandidateLists,
                  out : {NoColumn}]

\* _detect_column(columns, candidates)
DetectApply ==
    /\ probe.pc = "ready"
    /\ probe' = [probe EXCEPT !.pc = "done",
                              !.out = detect_column(probe.columns, probe.candidates)]
    /\ UNCHANGED <<fields, last>>

DetectSpec == DetectInit /\ [][DetectApply]_vars

(***************************************************************************)
(* MainWindow._infer_value_type on its own.  A series is a column of       *)
(* cells with its storage type; probe holds the series and the kind        *)
(* returned.                                                               *)
(***************************************************************************)
Series(dtype, cells) == [dtype |-> dtype, cells |-> cells]

\* n cells holding v
Repeat(v, n) == [i \in 1..n |-> v]

\* columns of texts: d dates, g texts that are neither dates nor numbers,
\* t numbers written as text, a missing cells
TextSeries ==
    {Series("object", Repeat(Str("2024-01-01"), d) \o Repeat(Str("x"), g)
                        \o Repeat(Str("7"), t) \o Repeat(NA, a)) :
       d \in 0..MaxDates, g \in 0..MaxOthers, t \in 0..1, a \in 0..1} \
    {Series("object", Repeat(NA, a)) : a \in 0..1}

\* columns of numbers, with missing cells or without
NumberSeries ==
    {Series(InferDtype(Repeat(Num(5), k) \o Repeat(NA, a)), Repeat(Num(5), k) \o Repeat(NA, a)) :
       k \in 0..1, a \in 0..MaxOthers} \ {Series("float64", <<>>)}

\* columns of timestamps, as load_students leaves the completion column
DateSeries ==
    {Series("datetime64", Repeat(Ts(20240101), k) \o Repeat(NA, a)) :
       k \in 0..1, a \in 0..MaxOthers} \ {Series("datetime64", <<>>)}

SeriesChoices == TextSeries \cup NumberSeries \cup DateSeries

\* the cells of a series that cell-wise coercion to a date, to a number, leaves present
DateCount(series) ==
    Cardinality({i \in 1..Len(series.cells) : ~IsNA(ToDatetime(series.cells[i]))})

NumberCount(series) ==
    Cardinality({i \in 1..Len(series.cells) : ~IsNA(ToNumeric(series.cells[i]))})

\* _infer_value_type with the date test strict (more than 20%)
infer_value_type_strict(series) ==
    IF series.dtype = "datetime64" THEN "date"
    ELSE IF DateCount(series) > 0 /\ 5 * DateCount(series) > Len(series.cells) THEN "date"
    ELSE IF series.dtype \in {"int64", "float64"} THEN "numeric"
    ELSE IF NumberCount(series) > 0 THEN "numeric"
    ELSE "categorical"

\* _infer_value_type(series).  notna().mean() is the quotient count / length
\* in double precision, which is at least the double 0.2 exactly when
\* 5 * count >= length.
infer_value_type(series) ==
    IF series.dtype = "datetime64" THEN "date"
    ELSE IF DateCount(series) > 0 /\ 5 * DateCount(series) >= Len(series.cells) THEN "date"
    ELSE IF series.dtype \in {"int64", "float64"} THEN "numeric"
    ELSE IF NumberCount(series) > 0 THEN "numeric"
    ELSE "categorical"

InferInit ==
    /\ students_df = NoneDF
    /\ courses_df = NoneCourses
    /\ kwalificaties_df = NoneKwalificaties
    /\ student_id_column = NoColumn
    /\ student_name_column = NoColumn
    /\ qid_column = NoColumn
    /\ completion_column = NoColumn
    /\ course_lookup_by_qid = EmptyLookup
    /\ matrix_data = EmptyMatrix
    /\ filters = <<>>
    /\ last = Called("init", "ok")
    /\ probe \in [pc : {"ready"}, series : SeriesChoices, out : {""}]

\* _infer_value_type(series)
InferApply ==
    /\ probe.pc = "ready"
    /\ probe' = [probe EXCEPT !.pc = "done", !.out = infer_value_type(probe.series)]
    /\ UNCHANGED <<fields, last>>

InferSpec == InferInit /\ [][InferApply]_vars

(***************************************************************************)
(* Properties.                                                             *)
(***************************************************************************)
\* the table build_matrix works on
Filtered == apply_filters(filters, students_df)

\* the text of a cell of the student-id or qualification-id column
TextAt(df, row, col) == AsStr(CellAt(df, row, col), Dtype(df, col))

\* the qualification ids that occur in a table
QidsIn(df) ==
    IF ~HasColumn(df, qid_column) THEN {}
    ELSE {TextAt(df, df.rows[r], qid_column) :
            r \in {r \in 1..Len(df.rows) : ~IsNA(CellAt(df, df.rows[r], qid_column))}}

Built == last = Called("build_matrix", "ok")

BothLoaded == ~students_df.isNone /\ ~courses_df.isNone

AxisQids == [i \in 1..Len(matrix_data.courses) |-> matrix_data.courses[i].qid]

\* C1: after build_matrix with both tables loaded, the qids of the course
\* axis are exactly the qualification ids occurring in the filtered student
\* table, without duplicates and in ascending lexicographic order, whatever
\* the catalog holds.
C1_CourseAxisIsSortedUniqueQids ==
    (Built /\ BothLoaded) =>
        /\ SeqToSet(AxisQids) = QidsIn(Filtered)
        /\ \A i, j \in 1..Len(AxisQids) : i < j => StrLess(AxisQids[i], AxisQids[j])

\* the rows of the filtered table that carry the given student id and qid
ContributingRows(identifier, qid) ==
    IF ~HasColumn(Filtered, student_id_column) \/ ~HasColumn(Filtered, qid_column) THEN <<>>
    ELSE SelectSeq(Filtered.rows, LAMBDA row :
            /\ ~IsNA(CellAt(Filtered, row, student_id_column))
            /\ ~IsNA(CellAt(Filtered, row, qid_column))
            /\ TextAt(Filtered, row, student_id_column) = identifier
            /\ TextAt(Filtered, row, qid_column) = qid)

\* the row and column numbers get_cell is asked for: the axes and one beyond each end
RowNumbers == -1..Len(matrix_data.students)

ColumnNumbers == -1..Len(matrix_data.courses)

InRange(r, c) ==
    /\ r \in 0..(Len(matrix_data.students) - 1)
    /\ c \in 0..(Len(matrix_data.courses) - 1)

\* C2: after build_matrix, get_cell(r, c) is a Cell exactly when the filtered
\* table has a row with the id of students[r] and the qid of courses[c]; the
\* Cell's student and course are students[r] and courses[c] and its rows are
\* exactly those rows; every other (r, c), out of range included, is absent.
C2_GetCellIffContributingRows ==
    Built =>
        \A r \in RowNumbers, c \in ColumnNumbers :
            IF /\ InRange(r, c)
               /\ ContributingRows(matrix_data.students[r + 1].identifier,
                                   matrix_data.courses[c + 1].qid) # <<>>
            THEN \E cell \in get_cell(r, c) :
                    /\ get_cell(r, c) = {cell}
                    /\ cell.student = matrix_data.students[r + 1]
                    /\ cell.course = matrix_data.courses[c + 1]
                    /\ cell.student_rows.rows =
                         ContributingRows(matrix_data.students[r + 1].identifier,
                                          matrix_data.courses[c + 1].qid)
            ELSE get_cell(r, c) = {}

\* C2 witness: a built matrix with a cell and, within the axes, a pair without one
C2_Witness ==
    /\ Built
    /\ \E r \in RowNumbers, c \in ColumnNumbers : get_cell(r, c) # {}
    /\ \E r \in RowNumbers, c \in ColumnNumbers : InRange(r, c) /\ get_cell(r, c) = {}

\* the parsed completion dates of a cell's contributing rows
ParsedDates(cell) ==
    {ToDatetime(CellAt(cell.student_rows, cell.student_rows.rows[r], completion_column)) :
       r \in 1..Len(cell.student_rows.rows)} \ {NA}

Cells == {matrix_data.cell_lookup[p] : p \in DOMAIN matrix_data.cell_lookup}

\* C3: the completion date of every Cell is the greatest parsed completion
\* date of its contributing rows; a student and qualification whose rows all
\* have unparseable or missing dates still have their Cell, with the date
\* absent.
C3_CompletionDateIsMaxParsed ==
    Built =>
        /\ \A cell \in Cells :
              IF ParsedDates(cell) = {} THEN IsNA(cell.completion_date)
              ELSE /\ cell.completion_date \in ParsedDates(cell)
                   /\ \A d \in ParsedDates(cell) : d.n <= cell.completion_date.n
        /\ \A s \in 1..Len(matrix_data.students), c \in 1..Len(matrix_data.courses) :
              ContributingRows(matrix_data.students[s].identifier,
                               matrix_data.courses[c].qid) # <<>>
                 => <<s - 1, c - 1>> \in DOMAIN matrix_data.cell_lookup

\* C3 witness: one matrix holds a Cell with two contributing rows of different
\* dates and a Cell whose rows have no parseable date
C3_Witness ==
    /\ Built
    /\ \E cell \in Cells : Cardinality(ParsedDates(cell)) > 1
    /\ \E cell \in Cells : ParsedDates(cell) = {} /\ cell.student_rows.rows # <<>>

FailedLoad(op) == last'.op = op /\ last'.outcome # "ok"

\* C4: a load that fails (missing file, no rows, a required column not
\* detected) leaves every field of the data model as it was.
C4_FailedLoadLeavesState ==
    [][(FailedLoad("load_students") \/ FailedLoad("load_courses")) => UNCHANGED fields]_vars

\* C5: a load_courses that fails (file not found, no course rows) leaves the
\* student table, its detected columns, the courses table, the catalog
\* index, the filters and the cached matrix unchanged.
C5_FailedLoadCoursesLeavesState ==
    [][FailedLoad("load_courses") => UNCHANGED fields]_vars

\* C5 witness: load_courses has failed on a model with both tables loaded,
\* filters set and a matrix built
C5_Witness ==
    /\ last.op = "load_courses" /\ last.outcome # "ok"
    /\ BothLoaded
    /\ filters # <<>>
    /\ DOMAIN matrix_data.cell_lookup # {}

\* C6: in every reachable state build_matrix returns, never raises; the
\* degenerate cases are matrices with empty axes and is_empty true.
C6_BuildMatrixNeverRaises ==
    last.op = "build_matrix" =>
        /\ last.outcome = "ok"
        /\ (students_df.isNone \/ courses_df.isNone \/ Filtered.rows = <<>>)
              => is_empty(matrix_data)

Applied == probe.pc = "done"

\* the table the criterion number i of the applied list is evaluated on
TableBefore(i) == apply_filters(SubSeq(probe.fs, 1, i - 1), probe.df)

\* the table after the criterion number i
TableAfter(i) == apply_filters(SubSeq(probe.fs, 1, i), probe.df)

IsRange(criterion) == criterion.value_type \in {"numeric", "date"}

\* the cell of a row under the criterion's column, parsed as the criterion's kind
Parsed(criterion, df, row) ==
    IF criterion.value_type = "date" THEN ToDatetime(CellAt(df, row, criterion.column))
    ELSE ToNumeric(CellAt(df, row, criterion.column))

\* the first and second value of a criterion, parsed as its kind
ParsedValue(criterion, k) ==
    IF criterion.value_type = "date" THEN ToDatetime(criterion.values[k])
    ELSE ToNumeric(criterion.values[k])

\* the cases in which a criterion is to be skipped
SkipCase(criterion, df) ==
    \/ criterion.column \notin SeqToSet(df.cols)
    \/ /\ criterion.value_type = "categorical"
       /\ \A k \in 1..Len(criterion.values) : IsNA(criterion.values[k])
    \/ /\ IsRange(criterion)
       /\ (criterion.values = <<>> \/ IsNA(ParsedValue(criterion, 1)))

\* C7: a numeric or date criterion (any of =, !=, <, <=, >, >=, between) never
\* keeps a row whose cell in its column does not parse as a number (as a
\* timestamp); evaluating such a row does not raise.
C7_UnparseableRowsNeverKept ==
    Applied =>
        \A i \in 1..Len(probe.fs) :
            (IsRange(probe.fs[i]) /\ ~SkipCase(probe.fs[i], probe.df)) =>
                \A r \in 1..Len(TableAfter(i).rows) :
                    ~IsNA(Parsed(probe.fs[i], probe.df, TableAfter(i).rows[r]))

\* one list without its criterion number i
WithoutCriterion(fs, i) == SubSeq(fs, 1, i - 1) \o SubSeq(fs, i + 1, Len(fs))

\* C8: applying F2 to the result of applying F1 gives the rows, in order,
\* that applying F1 ++ F2 gives; the empty list gives the table back.
C8_FilterComposition ==
    Applied =>
        /\ \A k \in 0..Len(probe.fs) :
              apply_filters(SubSeq(probe.fs, k + 1, Len(probe.fs)),
                            apply_filters(SubSeq(probe.fs, 1, k), probe.df)) = probe.out
        /\ probe.fs = <<>> => probe.out = probe.df

\* C8 witness: a list of two criteria has been applied, each of which drops a row
C8_Witness ==
    /\ Applied
    /\ Len(probe.fs) = 2
    /\ TableAfter(1).rows # probe.df.rows
    /\ TableAfter(1).rows # <<>>
    /\ probe.out.rows # TableAfter(1).rows

\* C9: a criterion whose column the table lacks, a categorical criterion left
\* without values once the missing ones are dropped, and a numeric or date
\* criterion with no values or an unparseable first value, are skipped: the
\* result is that of the other criteria alone.
C9_SkippedCriteria ==
    Applied =>
        \A i \in 1..Len(probe.fs) :
            SkipCase(probe.fs[i], probe.df) =>
                probe.out = apply_filters(WithoutCriterion(probe.fs, i), probe.df)

\* C9 witness: a list of a skipped criterion and one that drops rows has been applied
C9_Witness ==
    /\ Applied
    /\ Len(probe.fs) = 2
    /\ \E i \in 1..2 : SkipCase(probe.fs[i], probe.df) /\ IsRange(probe.fs[i])
    /\ probe.out.rows # probe.df.rows

\* a between criterion with two parseable values
ProperBetween(criterion) ==
    /\ IsRange(criterion)
    /\ criterion.operator = "between"
    /\ Len(criterion.values) > 1
    /\ ~IsNA(ParsedValue(criterion, 1))
    /\ ~IsNA(ParsedValue(criterion, 2))

\* C10: between with parseable [start, end] keeps a row iff its parsed cell v
\* has start <= v <= end, both ends included; the bounds are not swapped, so
\* with start > end no row is kept.
C10_BetweenInclusive ==
    Applied =>
        \A i \in 1..Len(probe.fs) :
            (ProperBetween(probe.fs[i]) /\ probe.fs[i].column \in SeqToSet(probe.df.cols)) =>
                /\ \A r \in 1..Len(TableBefore(i).rows) :
                      LET row == TableBefore(i).rows[r]
                          v == Parsed(probe.fs[i], probe.df, row)
                      IN  (row \in SeqToSet(TableAfter(i).rows))
                             <=> /\ ~IsNA(v)
                                 /\ ParsedValue(probe.fs[i], 1).n <= v.n
                                 /\ v.n <= ParsedValue(probe.fs[i], 2).n
                /\ ParsedValue(probe.fs[i], 1).n > ParsedValue(probe.fs[i], 2).n
                      => TableAfter(i).rows = <<>>

\* C10 witness: a between criterion has kept a row at its start and a row at
\* its end and dropped another
C10_Witness ==
    /\ Applied
    /\ Len(probe.fs) = 1
    /\ ProperBetween(probe.fs[1])
    /\ \E r \in 1..Len(probe.out.rows) :
          Parsed(probe.fs[1], probe.df, probe.out.rows[r]).n = ParsedValue(probe.fs[1], 1).n
    /\ \E r \in 1..Len(probe.out.rows) :
          Parsed(probe.fs[1], probe.df, probe.out.rows[r]).n = ParsedValue(probe.fs[1], 2).n
    /\ ParsedValue(probe.fs[1], 1).n < ParsedValue(probe.fs[1], 2).n

\* a between criterion with a parseable start and no usable end
EndlessBetween(criterion) ==
    /\ IsRange(criterion)
    /\ criterion.operator = "between"
    /\ criterion.values # <<>>
    /\ ~IsNA(ParsedValue(criterion, 1))
    /\ (Len(criterion.values) = 1 \/ IsNA(ParsedValue(criterion, 2)))

\* the same criterion with the operator =
AsEquality(criterion) == [criterion EXCEPT !.operator = "="]

\* C11: a numeric or date between criterion whose start parses and whose end
\* is not in the value list or does not parse gives the result of the same
\* criterion with operator = against start.
C11_BetweenWithoutEndIsEquality ==
    Applied =>
        \A i \in 1..Len(probe.fs) :
            EndlessBetween(probe.fs[i]) =>
                TableAfter(i) = apply_filters(<<AsEquality(probe.fs[i])>>, TableBefore(i))

\* C11 witness: a between criterion without a usable end has kept the rows
\* equal to its start and dropped a row above it
C11_Witness ==
    /\ Applied
    /\ Len(probe.fs) = 1
    /\ EndlessBetween(probe.fs[1])
    /\ probe.out.rows # <<>>
    /\ \E r \in 1..Len(probe.df.rows) :
          /\ ~IsNA(Parsed(probe.fs[1], probe.df, probe.df.rows[r]))
          /\ Parsed(probe.fs[1], probe.df, probe.df.rows[r]).n > ParsedValue(probe.fs[1], 1).n
          /\ probe.df.rows[r] \notin SeqToSet(probe.out.rows)

\* the criterion's values that are not missing, as strings, in order
TextValues(criterion) ==
    LET RECURSIVE texts(_)
        texts(k) == IF k > Len(criterion.values) THEN <<>>
                    ELSE (IF IsNA(criterion.values[k]) THEN <<>>
                          ELSE <<PyStr(criterion.values[k])>>) \o texts(k + 1)
    IN  texts(1)

\* a categorical criterion on a column of the table, with values
CategoricalCase(criterion, df) ==
    /\ criterion.value_type = "categorical"
    /\ criterion.column \in SeqToSet(df.cols)
    /\ TextValues(criterion) # <<>>

\* whether a cell that reads as text is to be kept
KeptBy(criterion, text) ==
    CASE criterion.operator = "is" -> text = TextValues(criterion)[1]
      [] criterion.operator = "is not" -> text # TextValues(criterion)[1]
      [] criterion.operator = "in" -> \E k \in 1..Len(TextValues(criterion)) :
                                         text = TextValues(criterion)[k]
      [] criterion.operator = "not in" -> \A k \in 1..Len(TextValues(criterion)) :
                                             text # TextValues(criterion)[k]

Opposite(operator) ==
    CASE operator = "is" -> "is not"
      [] operator = "is not" -> "is"
      [] operator = "in" -> "not in"
      [] operator = "not in" -> "in"

\* C12: a categorical criterion with values compares the cell and the values
\* as strings and keeps a row iff: is - the cell equals the first value;
\* is not - it differs from the first value; in - it is one of the values;
\* not in - it is none of them.  is and is not, and in and not in, with the
\* same values split the table in two.
C12_CategoricalOperators ==
    Applied =>
        \A i \in 1..Len(probe.fs) :
            CategoricalCase(probe.fs[i], probe.df) =>
                LET before == TableBefore(i)
                    kept == SeqToSet(TableAfter(i).rows)
                    other == SeqToSet(apply_filters(
                                 <<[probe.fs[i] EXCEPT !.operator = Opposite(@)]>>, before).rows)
                IN  /\ \A r \in 1..Len(before.rows) :
                          (before.rows[r] \in kept)
                             <=> KeptBy(probe.fs[i],
                                        TextAt(probe.df, before.rows[r], probe.fs[i].column))
                    /\ kept \cap other = {}
                    /\ kept \cup other = SeqToSet(before.rows)

\* C12 witness: a criterion with two values, the first the text "5", on a
\* column of numbers has kept a row whose cell is the number 5 and dropped
\* another row
C12_Witness ==
    /\ Applied
    /\ Len(probe.fs) = 1
    /\ CategoricalCase(probe.fs[1], probe.df)
    /\ Len(TextValues(probe.fs[1])) = 2
    /\ probe.fs[1].values[1] = Str("5")
    /\ \E r \in 1..Len(probe.out.rows) :
          CellAt(probe.df, probe.out.rows[r], probe.fs[1].column) = Num(5)
    /\ Len(probe.out.rows) < Len(probe.df.rows)

\* the operations that were called last are set_filters or a load that succeeded
Invalidated ==
    /\ last.op \in {"set_filters", "load_students", "load_courses"}
    /\ last.outcome = "ok"

\* get_cell answers None for every pair of indices, those out of range included
NoCell == \A r \in -1..MaxRows, c \in -1..MaxRows : get_cell(r, c) = {}

\* the cached matrix has no students, no courses and no cells
CacheEmpty == matrix_data = EmptyMatrix /\ NoCell

\* C13: set_filters and a load_students or load_courses that succeeds leave
\* the cached matrix empty, and it stays empty, get_cell answering None for
\* every (row, col), until build_matrix is called.
C13_InvalidatedUntilRebuilt ==
    [][/\ Invalidated' => CacheEmpty'
       /\ (CacheEmpty /\ last'.op # "build_matrix") => CacheEmpty']_vars

\* C13 witness: set_filters has left the cache empty on a model whose tables
\* give a matrix with cells
C13_Witness ==
    /\ last.op = "set_filters"
    /\ CacheEmpty
    /\ build_matrix.outcome = "ok"
    /\ DOMAIN build_matrix.matrix.cell_lookup # {}

\* the student identifiers that occur in a table
IdsIn(df) ==
    IF ~HasColumn(df, student_id_column) THEN {}
    ELSE {TextAt(df, df.rows[r], student_id_column) :
            r \in {r \in 1..Len(df.rows) : ~IsNA(CellAt(df, df.rows[r], student_id_column))}}

\* the rows of a table that carry the given student identifier, in table order
RowsOf(df, identifier) ==
    SelectSeq(df.rows, LAMBDA row :
        /\ ~IsNA(CellAt(df, row, student_id_column))
        /\ TextAt(df, row, student_id_column) = identifier)

AxisIds == [i \in 1..Len(matrix_data.students) |-> matrix_data.students[i].identifier]

\* C14: after build_matrix with both tables loaded, the student axis has one
\* entry for each student identifier of the filtered table, in ascending
\* string order without duplicates, and the rows of each entry are exactly
\* the filtered rows that carry its identifier.
C14_StudentAxisIsSortedUniqueIds ==
    (Built /\ BothLoaded) =>
        /\ SeqToSet(AxisIds) = IdsIn(Filtered)
        /\ \A i, j \in 1..Len(AxisIds) : i < j => StrLess(AxisIds[i], AxisIds[j])
        /\ \A i \in 1..Len(AxisIds) :
              matrix_data.students[i].rows.rows = RowsOf(Filtered, AxisIds[i])

\* C15: the filter list is the argument of the latest set_filters call, the
\* empty list before the first; build_matrix and the loads leave it alone.
C15_FiltersPersistUntilReplaced ==
    [][IF last'.op = "set_filters" THEN filters' = last'.arg ELSE filters' = filters]_vars

\* a row whose qualification id is missing.  read_excel reads a cell with
\* the text nan as a missing one, so after the astype(str) of load_students
\* the text "nan" in the column can only stand for a missing id.
MissingQid(df, row) ==
    \/ IsNA(CellAt(df, row, qid_column))
    \/ TextAt(df, row, qid_column) = "nan"

\* C16: a row whose qualification id is missing makes no column of the
\* course axis and no cell: no course stands for a missing id.
C16_MissingQidMakesNoCourse ==
    (Built /\ BothLoaded) =>
        /\ \A c \in 1..Len(matrix_data.courses) : matrix_data.courses[c].qid # "nan"
        /\ \A cell \in Cells :
              \A r \in 1..Len(cell.student_rows.rows) :
                  ~MissingQid(cell.student_rows, cell.student_rows.rows[r])

\* C17: build_matrix returns the empty matrix when the student table or the
\* course table is not loaded, and a matrix with both axes empty when no row
\* of the student table survives the filters; is_empty is true exactly when
\* the student axis or the course axis is empty.
C17_DegenerateBuilds ==
    last.op = "build_matrix" =>
        /\ ~BothLoaded =>
              /\ last.outcome = "ok"
              /\ matrix_data = EmptyMatrix
              /\ is_empty(matrix_data)
        /\ (BothLoaded /\ Filtered.rows = <<>>) =>
              /\ last.outcome = "ok"
              /\ matrix_data.students = <<>>
              /\ matrix_data.courses = <<>>
        /\ last.outcome = "ok" =>
              (is_empty(matrix_data)
                 <=> (Len(matrix_data.students) = 0 \/ Len(matrix_data.courses) = 0))

\* some column of the table is one of the candidates, letter case aside
Detectable(columns, candidates) ==
    \E i \in 1..Len(columns), k \in 1..Len(candidates) :
        LowerCodes(columns[i]) = LowerCodes(candidates[k])

\* the three required columns can be found in the table
RequiredDetectable(columns) ==
    /\ Detectable(columns, STUDENT_ID_CANDIDATES)
    /\ Detectable(columns, QID_CANDIDATES)
    /\ Detectable(columns, COMPLETION_CANDIDATES)

\* load_students has read a sheet with rows: students_df is that sheet
SheetRead == last.op = "load_students" /\ last.outcome \in {"ok", "KeyError"}

\* C18: load_students of a sheet with rows raises KeyError when the student
\* id, the qualification id or the completion column cannot be detected and
\* succeeds otherwise, the name column detected or not; without a name
\* column the labels of the student axis are the identifiers alone.
C18_RequiredAndOptionalColumns ==
    /\ SheetRead =>
          /\ last.outcome = "KeyError" <=> ~RequiredDetectable(students_df.cols)
          /\ last.outcome = "ok" =>
                (student_name_column = NoColumn
                   <=> ~Detectable(students_df.cols, STUDENT_NAME_CANDIDATES))
    /\ (Built /\ BothLoaded /\ ~Detectable(students_df.cols, STUDENT_NAME_CANDIDATES)) =>
          \A i \in 1..Len(matrix_data.students) :
              matrix_data.students[i].label = <<matrix_data.students[i].identifier>>

\* C18 witness: a sheet without a name column has been loaded and the matrix
\* built from it has students, labelled by their identifiers
C18_Witness ==
    /\ Built
    /\ BothLoaded
    /\ RequiredDetectable(students_df.cols)
    /\ ~Detectable(students_df.cols, STUDENT_NAME_CANDIDATES)
    /\ student_name_column = NoColumn
    /\ matrix_data.students # <<>>
    /\ matrix_data.students[1].label = <<matrix_data.students[1].identifier>>

\* the entries of a course row's qualification list that are dicts
Entries(row) ==
    IF row.kwalificaties.isList
    THEN {row.kwalificaties.items[k] :
            k \in {k \in 1..Len(row.kwalificaties.items) : row.kwalificaties.items[k].isDict}}
    ELSE {}

\* the qualification ids a course row lists, as the index reads them
ListedBy(row) == {PyStr(KwalQid(e)) : e \in {e \in Entries(row) : ~IsNA(KwalQid(e))}}

\* the numbers of the rows of the course table that list qid
Listing(qid) == {r \in 1..Len(courses_df.rows) : qid \in ListedBy(courses_df.rows[r])}

\* C19: an id that several course rows list is mapped, by the index and by
\* get_course_by_qid, to the last of them in table order; the index holds
\* the ids of the loaded course table only, none of an earlier table.
C19_LastCourseRowWins ==
    ~courses_df.isNone =>
        /\ DOMAIN course_lookup_by_qid
             = UNION {ListedBy(courses_df.rows[r]) : r \in 1..Len(courses_df.rows)}
        /\ \A qid \in DOMAIN course_lookup_by_qid :
              /\ \E r \in Listing(qid) :
                    /\ \A r2 \in Listing(qid) : r2 <= r
                    /\ course_lookup_by_qid[qid] = courses_df.rows[r]
              /\ get_course_by_qid(qid) = course_lookup_by_qid[qid]

\* C19 witness: two different course rows list one id and the index gives the later
C19_Witness ==
    /\ ~courses_df.isNone
    /\ \E qid \in DOMAIN course_lookup_by_qid :
          /\ Listing(qid) = {1, 2}
          /\ courses_df.rows[1] # courses_df.rows[2]
          /\ get_course_by_qid(qid) = courses_df.rows[2]

\* the keys of a qualification entry that carry an id
KeysPresent(e) == {k \in 1..3 : ~IsNA(e.ids[k])}

\* the id under the first of the keys "Kwal. ID", "Kwalificatie ID",
\* "kwalificatie_id" that the entry carries, as a string
FirstId(e) == PyStr(e.ids[CHOOSE k \in KeysPresent(e) : \A k2 \in KeysPresent(e) : k <= k2])

\* the ids the entries of a course row resolve to
ResolvedBy(row) == {FirstId(e) : e \in {e \in Entries(row) : KeysPresent(e) # {}}}

\* C20: every qualification entry that carries an id under one of the three
\* keys is indexed under the id of the first key it carries, as a string,
\* with a course row that owns such an entry, whatever the id (0 and ""
\* included); rows without a qualification list add nothing to the index.
C20_EveryResolvableIdIndexed ==
    ~courses_df.isNone =>
        /\ \A r \in 1..Len(courses_df.rows) :
              \A qid \in ResolvedBy(courses_df.rows[r]) :
                  /\ qid \in DOMAIN course_lookup_by_qid
                  /\ qid \in ResolvedBy(course_lookup_by_qid[qid])
        /\ DOMAIN course_lookup_by_qid
             \subseteq UNION {ResolvedBy(courses_df.rows[r]) : r \in 1..Len(courses_df.rows)}

Detected == probe.pc = "done"

\* a column and a candidate are the same name, letter case aside
Matches(column, candidate) == LowerCodes(column) = LowerCodes(candidate)

\* the numbers of the candidates that match a column of the header
Matched == {k \in 1..Len(probe.candidates) :
              \E i \in 1..Len(probe.columns) : Matches(probe.columns[i], probe.candidates[k])}

\* C21: detect_column returns a column for the first candidate that matches
\* a column, exactly or letter case aside, wherever the columns stand in
\* the header; what it returns is a column name of the header as spelled
\* there, or None, and it is None iff no candidate matches a column.
C21_DetectColumnPriority ==
    Detected =>
        /\ probe.out # NoColumn => probe.out \in SeqToSet(probe.columns)
        /\ probe.out = NoColumn <=> Matched = {}
        /\ \A k \in Matched :
              (\A k2 \in Matched : k <= k2) => Matches(probe.out, probe.candidates[k])

\* C21 witness: of two candidates the first matches a column letter case
\* aside only, the second matches an earlier column exactly, and the column
\* of the first is returned
C21_Witness ==
    /\ Detected
    /\ Len(probe.candidates) = 2
    /\ Matched = {1, 2}
    /\ probe.candidates[1] \notin SeqToSet(probe.columns)
    /\ ~Matches(probe.candidates[1], probe.candidates[2])
    /\ \E i, j \in 1..Len(probe.columns) :
          /\ i < j
          /\ probe.columns[i] = probe.candidates[2]
          /\ probe.columns[j] = probe.out
          /\ Matches(probe.out, probe.candidates[1])

Inferred == probe.pc = "done"

\* the values of the probed series that parse as dates, as numbers
AsDates == {i \in 1..Len(probe.series.cells) : ~IsNA(ToDatetime(probe.series.cells[i]))}

AsNumbers == {i \in 1..Len(probe.series.cells) : ~IsNA(ToNumeric(probe.series.cells[i]))}

\* C22: the kind of a column is decided in this order: date storage - date;
\* at least 20% of all values parse as dates (2 of 10 do, 1 of 10 does not)
\* - date; numeric storage - numeric; some value parses as a number -
\* numeric; otherwise categorical.
C22_InferValueKindOrder ==
    Inferred =>
        probe.out =
           CASE probe.series.dtype = "datetime64" -> "date"
             [] OTHER ->
                IF Cardinality(AsDates) * 100 >= 20 * Len(probe.series.cells) THEN "date"
                ELSE IF probe.series.dtype \in {"int64", "float64"} THEN "numeric"
                ELSE IF AsNumbers # {} THEN "numeric"
                ELSE "categorical"

\* C22 witness: a column of ten texts of which exactly two parse as dates is a date column
C22_Witness ==
    /\ Inferred
    /\ probe.series.dtype = "object"
    /\ Len(probe.series.cells) = 10
    /\ Cardinality(AsDates) = 2
    /\ probe.out = "date"

\* the step is a call of build_matrix
BuildCalled == last'.op = "build_matrix"

\* the qualification ids asked of get_course_by_qid
AskedQids == {"Q1", "Q2", "Q9", "0", "", "nan"}

\* C23: build_matrix is a function of the tables, the catalog index and the
\* filters alone: a call that follows a call of build_matrix directly ends as
\* that one did and leaves the same MatrixData (axes, cell keys, dates), and
\* every call leaves the tables, the detected columns, the catalog index, the
\* answers of get_course_by_qid and the filters as they were.
C23_BuildMatrixIsPure ==
    [][BuildCalled =>
         /\ UNCHANGED <<students_df, courses_df, kwalificaties_df, student_id_column,
                        student_name_column, qid_column, completion_column,
                        course_lookup_by_qid, filters>>
         /\ \A qid \in AskedQids : get_course_by_qid(qid)' = get_course_by_qid(qid)
         /\ last.op = "build_matrix" =>
               /\ last'.outcome = last.outcome
               /\ matrix_data' = matrix_data]_vars

\* C23 witness: build_matrix has returned a matrix with cells, built from a
\* table that the filters narrow, with a catalog that knows one of its courses
C23_Witness ==
    /\ Built
    /\ Cells # {}
    /\ filters # <<>>
    /\ Len(Filtered.rows) < Len(students_df.rows)
    /\ \E i \in 1..Len(matrix_data.courses) : get_course_by_qid(matrix_data.courses[i].qid) # NoneRow

\* C24: in every reachable state the cached matrix is empty or is the matrix
\* build_matrix returns for the current tables, catalog index and filters.
C24_CacheIsEmptyOrCurrent ==
    \/ matrix_data = EmptyMatrix
    \/ /\ build_matrix.outcome = "ok"
       /\ matrix_data = build_matrix.matrix

\* the keys of the cells of the cached matrix
CellKeys == DOMAIN matrix_data.cell_lookup

\* C25: a MatrixData returned by build_matrix has a Cell for every student
\* index and for every course index, every cell key lies within the axes, and
\* the student axis is empty exactly when the course axis is.
C25_NoEmptyRowOrColumn ==
    Built =>
        /\ \A r \in 0..(Len(matrix_data.students) - 1) : \E key \in CellKeys : key[1] = r
        /\ \A c \in 0..(Len(matrix_data.courses) - 1) : \E key \in CellKeys : key[2] = c
        /\ \A key \in CellKeys : InRange(key[1], key[2])
        /\ (matrix_data.students = <<>>) <=> (matrix_data.courses = <<>>)

====
